---- MODULE Spec2Model ----
(***************************************************************************)
(* cachehash: a fixed-capacity LRU cache (src/cachehash.c).  An arena of   *)
(* maxitems list nodes, a doubly linked recency list over them and a       *)
(* JudyHS array used as the key index.                                     *)
(*                                                                         *)
(* Pointers are modelled as tagged pairs: NULL, Node(i) for &nodes[i]      *)
(* (also for the two addresses &nodes[-1] and &nodes[maxitems] that lie    *)
(* just outside the arena), Handle(v) for a caller's opaque value and      *)
(* JudyRoot for the root of a non-empty Judy array.  Keys are byte strings *)
(* compared by content; a key is modelled by a number in Keys and the NULL *)
(* key pointer of a free node by NoKey.                                    *)
(*                                                                         *)
(* pc is "run" while the cache can be called.  A call may instead end the  *)
(* run: "abort" (an assert failed; asserts are compiled in), "fault" (an   *)
(* access to unmapped memory), "corrupt" (memory outside the arena was     *)
(* overwritten, or the list now leads outside the arena; what later calls  *)
(* do is not determined by the source) or "freed" (cachehash_free          *)
(* returned).                                                              *)
(***************************************************************************)
EXTENDS Integers, Sequences, FiniteSets, TLC

VARIABLES maxsize,    \* ch->maxsize
          nullpage,   \* is address 0 readable and writable in this process?
          init_cb,    \* the cb argument cachehash_init was called with
          evict_cb,   \* ch->evict_cb
          start,      \* ch->start
          end,        \* ch->end
          nodes,      \* the arena: node address -> [next, prev, key, data]
          currsize,   \* ch->currsize
          judy,       \* the Judy array the cell *ch->judy designates: key -> word
          pc,         \* "run", or how the process / the handle ended
          op,         \* the last call: its name, its key, and what held when it was made
          ret,        \* what the last call returned (NULL for a void function)
          evict_log,  \* the values handed to the eviction callback, in order
          free_log,   \* the values handed to cachehash_free's callback, in order
          hist,       \* the calls so far, while they follow the fill-then-insert script
          lru         \* the keys a reference LRU cache run side by side holds, most recent first

vars == <<maxsize, nullpage, init_cb, evict_cb, start, end, nodes, currsize,
          judy, pc, op, ret, evict_log, free_log, hist, lru>>

\* Largest capacity explored.
MaxItems == 2
\* Number of distinct non-null value handles.
MaxVals == 1

NULL == <<"null", 0>>
Node(i) == <<"node", i>>
Handle(v) == <<"handle", v>>
JudyRoot == <<"judyroot", 0>>
Callback == <<"callback", 0>>
NoKey == 0

Keys == 1..(MaxItems + 1)
Values == {NULL} \cup {Handle(v) : v \in 1..MaxVals}
Callbacks == {NULL, Callback}
EmptyJudy == [k \in {} |-> NULL]

-----------------------------------------------------------------------------
(* cachehash_init *)

\* The arena as lines 43-58 leave it: calloc zeroes every field, then the
\* assignments run in program order, so for maxitems = 1 the "last node"
\* assignment gives nodes[0].prev = &nodes[-1] and the "initial node" one
\* nodes[0].next = &nodes[1].
InitNodes(maxitems) ==
    [n \in {Node(i) : i \in 0..(maxitems - 1)} |->
        LET i == n[2] IN
        [next |-> IF i = 0 THEN Node(1)
                  ELSE IF i < maxitems - 1 THEN Node(i + 1) ELSE NULL,
         prev |-> IF i = maxitems - 1 THEN Node(maxitems - 2)
                  ELSE IF i >= 1 THEN Node(i - 1) ELSE NULL,
         key  |-> NoKey,
         data |-> NULL]]

\* The evict_cb field after cachehash_init: memset clears it and the cb
\* argument is never stored.
InitEvictCb(cb) == NULL

\* The cell ch->judy points to: memset leaves ch->judy NULL and nothing
\* allocates it, so every *ch->judy is an access to address 0.  Where that
\* page is mapped the cell there holds the (empty) array root.
Init ==
    /\ maxsize \in 1..MaxItems
    /\ nullpage \in BOOLEAN
    /\ init_cb \in Callbacks
    /\ evict_cb = InitEvictCb(init_cb)
    /\ start = Node(0)
    /\ end = Node(maxsize - 1)
    /\ nodes = InitNodes(maxsize)
    /\ currsize = 0
    /\ judy = EmptyJudy
    /\ pc = "run"
    /\ op = [name |-> "init", key |-> NoKey, cb |-> init_cb, full |-> FALSE, present |-> FALSE]
    /\ ret = NULL
    /\ evict_log = <<>>
    /\ free_log = <<>>
    /\ hist = <<>>
    /\ lru = <<>>

\* The cache structure as one record, for the functions below.
Cache == [start |-> start, end |-> end, nodes |-> nodes,
          currsize |-> currsize, judy |-> judy]

-----------------------------------------------------------------------------
(* The JudyHS macros of <Judy.h>, on an array held in a local variable j.  *)
(* JHSI and JHSD take the array by reference and may change the local      *)
(* root; the caller decides whether to store it back in *ch->judy.         *)

\* JHSG: v_ is a pointer to the word stored under key, or NULL.
JHSG(j, key) == [found |-> key \in DOMAIN j]

\* JHSI: v_ points to the word stored under key, inserted as 0 if the key was
\* new.  Inserting into the empty array (root NULL) allocates a new root.
JHSI(j, key) ==
    [array |-> IF key \in DOMAIN j THEN j
               ELSE [k \in DOMAIN j \cup {key} |-> IF k = key THEN NULL ELSE j[k]],
     moved |-> DOMAIN j = {}]

\* JHSD: rc is 1 iff the key was there; it is removed.
JHSD(j, key) ==
    [rc    |-> key \in DOMAIN j,
     array |-> [k \in DOMAIN j \ {key} |-> j[k]]]

\* The word read at address 0 where that page is mapped: the array root held
\* in the cell ch->judy (= NULL) designates.
RootWord(j) == IF DOMAIN j = {} THEN NULL ELSE JudyRoot

-----------------------------------------------------------------------------
(* eviction_needed, evict, use, judy_get *)

eviction_needed_never(ch) == ch.currsize > maxsize

eviction_needed(ch) == ch.currsize = maxsize

\* evict: the load of *ch->judy (line 76) faults where page 0 is unmapped;
\* assert(rc) (line 81) aborts when the tail's key is not in the array.
evict(ch) ==
    LET last == ch.end
        d    == JHSD(ch.judy, ch.nodes[last].key)
    IN  IF ~nullpage THEN [ch |-> ch, st |-> "fault", retv |-> NULL]
        ELSE IF ~d.rc THEN [ch |-> ch, st |-> "abort", retv |-> NULL]
        ELSE [ch   |-> [ch EXCEPT !.judy = d.array,
                                  !.nodes[last].data = NULL,
                                  !.nodes[last].key = NoKey,
                                  !.currsize = @ - 1],
              st   |-> "ok",
              retv |-> ch.nodes[last].data]

use_keeps_end(ch, n) ==
    IF ch.nodes[n].prev = NULL THEN [ch |-> ch, oob |-> FALSE]
    ELSE
      LET prev == ch.nodes[n].prev
          nxt  == ch.nodes[n].next
          nd1  == IF prev \in DOMAIN ch.nodes
                  THEN [ch.nodes EXCEPT ![prev].next = nxt] ELSE ch.nodes
          nd2  == IF nxt # NULL /\ nxt \in DOMAIN nd1
                  THEN [nd1 EXCEPT ![nxt].prev = prev] ELSE nd1
          nd3  == [nd2 EXCEPT ![n].next = ch.start, ![n].prev = NULL]
      IN  [ch  |-> [ch EXCEPT !.nodes = nd3, !.start = n],
           oob |-> prev \notin DOMAIN ch.nodes
                     \/ (nxt # NULL /\ nxt \notin DOMAIN ch.nodes)]

\* use, for a node n of the arena.  A store through n->prev or n->next that
\* lands outside the arena is not part of the cache; oob reports it.
use(ch, n) ==
    IF ch.nodes[n].prev = NULL THEN [ch |-> ch, oob |-> FALSE]
    ELSE
      LET prev == ch.nodes[n].prev
          nxt  == ch.nodes[n].next
          nd1  == IF prev \in DOMAIN ch.nodes
                  THEN [ch.nodes EXCEPT ![prev].next = nxt] ELSE ch.nodes
          nd2  == IF nxt # NULL /\ nxt \in DOMAIN nd1
                  THEN [nd1 EXCEPT ![nxt].prev = prev] ELSE nd1
          en   == IF nxt # NULL THEN ch.end ELSE prev
          nd3  == [nd2 EXCEPT ![n].next = ch.start, ![n].prev = NULL]
      IN  [ch  |-> [ch EXCEPT !.nodes = nd3, !.start = n, !.end = en],
           oob |-> prev \notin DOMAIN ch.nodes
                     \/ (nxt # NULL /\ nxt \notin DOMAIN ch.nodes)]

judy_get_inserting(ch, key) ==
    IF ~nullpage THEN [st |-> "fault", n |-> NULL, judy |-> ch.judy]
    ELSE LET i == JHSI(ch.judy, key)
         IN  [st |-> "ok", n |-> i.array[key], judy |-> i.array]

\* judy_get: loads *ch->judy (line 121), looks the key up, stores the root
\* back (line 124) and returns *v_ as a node pointer.  On a miss v_ is NULL
\* and *v_ reads address 0.
judy_get(ch, key) ==
    IF ~nullpage THEN [st |-> "fault", n |-> NULL, judy |-> ch.judy]
    ELSE LET g == JHSG(ch.judy, key)
         IN  [st   |-> "ok",
              n    |-> IF g.found THEN ch.judy[key] ELSE RootWord(ch.judy),
              judy |-> ch.judy]

-----------------------------------------------------------------------------
(* The public functions.  Each gives the set of outcomes of one call:      *)
(* the cache afterwards, how the call ended and what it returned.  A read  *)
(* through a pointer that is no node of the arena either faults or yields  *)
(* whatever lies there.                                                    *)

cachehash_has(ch, key) ==
    LET g   == judy_get(ch, key)
        ch1 == [ch EXCEPT !.judy = g.judy]
    IN  IF g.st # "ok" THEN {[ch |-> ch, st |-> g.st, retv |-> NULL]}
        ELSE IF g.n = NULL THEN {[ch |-> ch1, st |-> "ok", retv |-> NULL]}
        ELSE IF g.n \in DOMAIN ch.nodes
             THEN {[ch |-> ch1, st |-> "ok", retv |-> ch.nodes[g.n].data]}
        ELSE {[ch |-> ch1, st |-> "fault", retv |-> NULL]}
               \cup {[ch |-> ch1, st |-> "ok", retv |-> v] : v \in Values}

cachehash_get(ch, key) ==
    LET g   == judy_get(ch, key)
        ch1 == [ch EXCEPT !.judy = g.judy]
    IN  IF g.st # "ok" THEN {[ch |-> ch, st |-> g.st, retv |-> NULL]}
        ELSE IF g.n = NULL THEN {[ch |-> ch1, st |-> "ok", retv |-> NULL]}
        ELSE IF g.n \in DOMAIN ch.nodes
             THEN LET u == use(ch1, g.n)
                  IN  IF u.oob
                      THEN {[ch |-> ch1, st |-> "fault", retv |-> NULL],
                            [ch |-> u.ch, st |-> "corrupt", retv |-> ch.nodes[g.n].data]}
                      ELSE {[ch |-> u.ch, st |-> "ok", retv |-> ch.nodes[g.n].data]}
        \* use() on a pointer outside the arena: it faults, or finds a NULL
        \* prev there and returns, or relinks foreign memory as the list head.
        ELSE {[ch |-> ch1, st |-> "fault", retv |-> NULL]}
               \cup {[ch |-> ch1, st |-> "ok", retv |-> v] : v \in Values}
               \cup {[ch |-> [ch1 EXCEPT !.start = g.n], st |-> "corrupt", retv |-> v]
                       : v \in Values}

cachehash_evict_if_full(ch) ==
    IF ~eviction_needed(ch) THEN [ch |-> ch, st |-> "ok", retv |-> NULL]
    ELSE evict(ch)

\* cachehash_put.  The eviction callback runs only if ch->evict_cb is set.
\* The array root JHSI leaves in the local j (line 191) is never stored back
\* in *ch->judy, so an insertion that allocates a new root is lost to the
\* cache.  A store of use() outside the arena either faults there or leaves
\* foreign memory overwritten when put returns.
cachehash_put(ch, key, value) ==
    LET e   == cachehash_evict_if_full(ch)
        cbs == IF e.retv # NULL /\ evict_cb # NULL THEN <<e.retv>> ELSE <<>>
        n   == e.ch.end
        ch1 == [e.ch EXCEPT !.nodes[n].key = key, !.nodes[n].data = value]
        u   == use(ch1, n)
        ch2 == [u.ch EXCEPT !.currsize = @ + 1]
        i   == JHSI(ch2.judy, key)
        a   == [i.array EXCEPT ![key] = value]
        ch3 == [ch2 EXCEPT !.judy = IF i.moved THEN @ ELSE a]
    IN  IF e.st # "ok" THEN {[ch |-> e.ch, st |-> e.st, cbs |-> <<>>]}
        ELSE (IF u.oob THEN {[ch |-> ch1, st |-> "fault", cbs |-> cbs]} ELSE {})
             \cup
             {IF ~nullpage THEN [ch |-> ch2, st |-> "fault", cbs |-> cbs]
              ELSE IF i.array[key] # NULL THEN [ch |-> ch2, st |-> "abort", cbs |-> cbs]
              ELSE [ch |-> ch3, st |-> IF u.oob THEN "corrupt" ELSE "ok", cbs |-> cbs]}

\* The loop of cachehash_free from node n: the values handed to cb, and how
\* the walk ends ("ok" at a node whose next is NULL, "wild" on leaving the
\* arena, "cycle" on coming back to a node already freed).
RECURSIVE walk(_, _, _, _)
walk(nd, n, cb, fuel) ==
    IF n \notin DOMAIN nd THEN [st |-> "wild", log |-> <<>>]
    ELSE IF nd[n].next = NULL THEN [st |-> "ok", log |-> <<>>]
    ELSE IF fuel = 0 THEN [st |-> "cycle", log |-> <<>>]
    ELSE LET r    == walk(nd, nd[n].next, cb, fuel - 1)
             mine == IF nd[n].key # NoKey /\ cb # NULL THEN <<nd[n].data>> ELSE <<>>
         IN  [st |-> r.st, log |-> mine \o r.log]

cachehash_free(ch, cb) ==
    LET w == walk(ch.nodes, ch.start, cb, Cardinality(DOMAIN ch.nodes))
    IN  IF ~nullpage THEN {[st |-> "fault", log |-> <<>>]}
        ELSE IF w.st = "ok" THEN {[st |-> "freed", log |-> w.log]}
        ELSE IF w.st = "wild"
             THEN {[st |-> x, log |-> w.log] : x \in {"fault", "freed", "corrupt"}}
        ELSE {[st |-> x, log |-> w.log] : x \in {"abort", "corrupt"}}

-----------------------------------------------------------------------------
(* The calls a client makes, one action each. *)

Present(k) == k # NoKey /\ \E n \in DOMAIN nodes : nodes[n].key = k

Called(name, key, cb) ==
    [name |-> name, key |-> key, cb |-> cb,
     full |-> currsize = maxsize, present |-> Present(key)]

\* The fill-then-insert script: puts of distinct keys, at most maxsize + 1 of
\* them, with at most one get, of the first key put, right after the
\* maxsize-th put.
Scripted(h) ==
    \A i \in 1..Len(h) :
        IF h[i][1] = "put"
        THEN /\ i <= maxsize + 1 \/ (i = maxsize + 2 /\ h[maxsize + 1][1] = "get")
             /\ \A j \in 1..(i - 1) : h[j][1] = "put" => h[j][2] # h[i][2]
        ELSE /\ h[i][1] = "get"
             /\ i = maxsize + 1
             /\ h[i][2] = h[1][2]

OffScript == <<<<"off", NoKey>>>>

Record(h, name, key) ==
    IF h # OffScript /\ Scripted(Append(h, <<name, key>>))
    THEN Append(h, <<name, key>>) ELSE OffScript

\* The reference LRU cache of capacity maxsize: a put drops the last key if
\* the cache is full and makes the new key the first; a get of a key it
\* holds makes that key the first; evict_if_full drops the last key if full.
Without(l, k) == SelectSeq(l, LAMBDA x : x # k)

RefEvict(l) == IF Len(l) = maxsize THEN SubSeq(l, 1, Len(l) - 1) ELSE l

RefPut(l, k) == <<k>> \o Without(RefEvict(l), k)

RefGet(l, k) == IF \E i \in 1..Len(l) : l[i] = k THEN <<k>> \o Without(l, k) ELSE l

Store(ch) ==
    /\ start' = ch.start
    /\ end' = ch.end
    /\ nodes' = ch.nodes
    /\ currsize' = ch.currsize
    /\ judy' = ch.judy

Has(key) ==
    /\ pc = "run"
    /\ \E o \in cachehash_has(Cache, key) :
          /\ Store(o.ch)
          /\ pc' = IF o.st = "ok" THEN "run" ELSE o.st
          /\ ret' = o.retv
    /\ op' = Called("has", key, NULL)
    /\ UNCHANGED <<maxsize, nullpage, init_cb, evict_cb, evict_log, free_log, hist, lru>>

Get(key) ==
    /\ pc = "run"
    /\ \E o \in cachehash_get(Cache, key) :
          /\ Store(o.ch)
          /\ pc' = IF o.st = "ok" THEN "run" ELSE o.st
          /\ ret' = o.retv
    /\ op' = Called("get", key, NULL)
    /\ hist' = Record(hist, "get", key)
    /\ lru' = RefGet(lru, key)
    /\ UNCHANGED <<maxsize, nullpage, init_cb, evict_cb, evict_log, free_log>>

EvictIfFull ==
    /\ pc = "run"
    /\ LET o == cachehash_evict_if_full(Cache)
       IN  /\ Store(o.ch)
           /\ pc' = IF o.st = "ok" THEN "run" ELSE o.st
           /\ ret' = o.retv
    /\ op' = Called("evict_if_full", NoKey, NULL)
    /\ hist' = OffScript
    /\ lru' = RefEvict(lru)
    /\ UNCHANGED <<maxsize, nullpage, init_cb, evict_cb, evict_log, free_log>>

Put(key, value) ==
    /\ pc = "run"
    /\ \E o \in cachehash_put(Cache, key, value) :
          /\ Store(o.ch)
          /\ pc' = IF o.st = "ok" THEN "run" ELSE o.st
          /\ evict_log' = evict_log \o o.cbs
    /\ ret' = NULL
    /\ op' = Called("put", key, NULL)
    /\ hist' = Record(hist, "put", key)
    /\ lru' = RefPut(lru, key)
    /\ UNCHANGED <<maxsize, nullpage, init_cb, evict_cb, free_log>>

Free(cb) ==
    /\ pc = "run"
    /\ \E o \in cachehash_free(Cache, cb) :
          /\ pc' = o.st
          /\ free_log' = o.log
    /\ ret' = NULL
    /\ op' = Called("free", NoKey, cb)
    /\ UNCHANGED <<maxsize, nullpage, init_cb, evict_cb, start, end, nodes,
                   currsize, judy, evict_log, hist, lru>>

DoHas == \E key \in Keys : Has(key)
DoGet == \E key \in Keys : Get(key)
DoPut == \E key \in Keys, value \in Values : Put(key, value)
DoFree == \E cb \in Callbacks : Free(cb)

Next == DoHas \/ DoGet \/ EvictIfFull \/ DoPut \/ DoFree

Spec == Init /\ [][Next]_vars

-----------------------------------------------------------------------------
(* Properties *)

CacheVars == <<start, end, nodes, currsize, judy>>

Occupied == {n \in DOMAIN nodes : nodes[n].key # NoKey}

\* The caller has kept to put's contract: no key was put while present.
DistinctKeys == \A n, m \in Occupied : nodes[n].key = nodes[m].key => n = m

Count(log, v) == Cardinality({i \in 1..Len(log) : log[i] = v})

\* The calls so far are exactly maxsize + 1 puts of distinct keys.
FilledThenPut ==
    /\ Len(hist) = maxsize + 1
    /\ \A i \in 1..Len(hist) : hist[i][1] = "put"

\* The calls so far are maxsize puts of distinct keys, get of the first key,
\* and a put of one more distinct key.
FilledGetThenPut ==
    /\ maxsize >= 2
    /\ Len(hist) = maxsize + 2
    /\ hist[maxsize + 1][1] = "get"

\* C1: 0 <= currsize <= maxsize after every operation, for every capacity
\* and every sequence of put, get, has and evict_if_full calls.
C1_CapacityInvariant == 0 <= currsize /\ currsize <= maxsize

\* A put was made on a cache that was full.
C1_PutOnFullCache == op.name = "put" /\ op.full /\ currsize = maxsize

\* C2: after putting maxsize distinct keys k1..kN into a fresh cache, the put
\* of a further distinct key completes, evicts exactly k1, and has(k1)
\* afterwards reports absent.
C2_EvictionOrder ==
    FilledThenPut =>
        /\ pc = "run"
        /\ ~Present(hist[1][2])
        /\ \A i \in 2..Len(hist) : Present(hist[i][2])
        /\ \A o \in cachehash_has(Cache, hist[1][2]) : o.st = "ok" /\ o.retv = NULL

\* C3: for capacity >= 2, after putting k1..kN, get(k1) and the put of a
\* further distinct key, k2 has been evicted and k1 (like k3..k(N+1)) is
\* still present.
C3_PromotionEffect ==
    FilledGetThenPut =>
        /\ pc = "run"
        /\ Present(hist[1][2])
        /\ ~Present(hist[2][2])
        /\ \A i \in 3..Len(hist) : i # maxsize + 1 => Present(hist[i][2])

\* C4: cachehash_has leaves head, tail, every node's links, key and value,
\* the size and the index unchanged, on a hit as on a miss.
C4_HasLeavesCacheUnchanged ==
    [][op'.name = "has" => UNCHANGED CacheVars]_vars

\* has was called, and returned, for a key some node of a full cache holds.
C4_HasOnHeldKey ==
    op.name = "has" /\ op.present /\ pc = "run" /\ currsize = maxsize

\* C5: get(k) and has(k), for a key k that was put and has not been evicted,
\* return the value stored with k.
C5_RoundTrip ==
    (op.name \in {"get", "has"} /\ op.present) =>
        /\ pc = "run"
        /\ \E n \in Occupied : nodes[n].key = op.key /\ ret = nodes[n].data

\* C6: a cachehash_free with a release callback that runs to its end has
\* handed the callback the value of every occupied node exactly once, the
\* tail included, and nothing else.
C6_DrainCompleteness ==
    (op.name = "free" /\ op.cb # NULL /\ pc = "freed" /\ DistinctKeys) =>
        \A v \in Values :
            Count(free_log, v) = Cardinality({n \in Occupied : nodes[n].data = v})

\* C7: in a cache created with an eviction callback, a put of a new key on
\* a full cache completes and hands the callback the evicted (tail) entry's value, once.
C7_EvictionCallback ==
    [][(/\ op'.name = "put" /\ currsize = maxsize /\ init_cb # NULL
        /\ DistinctKeys /\ ~Present(op'.key)) =>
          (pc' = "run" /\ evict_log' = Append(evict_log, nodes[end].data))]_vars

\* C8: has and get of a key that is not in the cache return NULL, without
\* aborting or faulting and without changing the cache.
C8_MissIsNormal ==
    [][(op'.name \in {"has", "get"} /\ ~Present(op'.key) /\ op'.key \notin DOMAIN judy) =>
          (pc' = "run" /\ ret' = NULL /\ UNCHANGED CacheVars)]_vars

\* C9: a put of a key that is present in the cache ends in the assertion
\* failure, whatever value is stored with the key.
C9_DuplicatePutFatal ==
    (op.name = "put" /\ op.present) => pc = "abort"

\* C10: cachehash_evict_if_full on a full cache clears the tail node's key
\* and value, removes the key from the index, decrements currsize and
\* returns the value; otherwise it returns NULL and changes nothing.
C10_EvictIfFull ==
    [][(op'.name = "evict_if_full" /\ DistinctKeys) =>
          IF currsize = maxsize
          THEN /\ pc' = "run"
               /\ ret' = nodes[end].data
               /\ currsize' = currsize - 1
               /\ nodes' = [nodes EXCEPT ![end].key = NoKey, ![end].data = NULL]
               /\ nodes[end].key \notin DOMAIN judy'
               /\ UNCHANGED <<start, end>>
          ELSE /\ pc' = "run"
               /\ ret' = NULL
               /\ UNCHANGED CacheVars]_vars

-----------------------------------------------------------------------------
(* Properties of the list structure *)

\* The nodes met following next from n, while inside the arena.
RECURSIVE ChainFrom(_, _, _)
ChainFrom(nd, n, fuel) ==
    IF n \notin DOMAIN nd \/ fuel = 0 THEN <<>>
    ELSE <<n>> \o ChainFrom(nd, nd[n].next, fuel - 1)

Chain == ChainFrom(nodes, start, maxsize + 1)

\* Following next from start visits every node once and ends at end, the
\* only node without a successor.
OneChain ==
    /\ Len(Chain) = maxsize
    /\ {Chain[i] : i \in 1..Len(Chain)} = DOMAIN nodes
    /\ Chain[maxsize] = end
    /\ \A n \in DOMAIN nodes : nodes[n].next = NULL <=> n = end

LinksInArena ==
    \A n \in DOMAIN nodes :
        /\ nodes[n].next \in DOMAIN nodes \cup {NULL}
        /\ nodes[n].prev \in DOMAIN nodes \cup {NULL}

\* C11: cachehash_init, for every capacity >= 1, leaves all nodes empty,
\* currsize 0, start the first node, end the last, and the links one chain
\* from start to end that stays inside the arena.
C11_Initialization ==
    op.name = "init" =>
        /\ Occupied = {}
        /\ \A n \in DOMAIN nodes : nodes[n].data = NULL
        /\ currsize = 0
        /\ start = Node(0)
        /\ end = Node(maxsize - 1)
        /\ nodes[start].prev = NULL
        /\ nodes[end].next = NULL
        /\ LinksInArena
        /\ OneChain

\* C12: the cache agrees with the reference LRU cache: it holds the same
\* keys, and its tail is a free node while there is one and otherwise the
\* node of the least recently touched key, the one the reference evicts next.
C12_LruPolicy ==
    (pc = "run" /\ DistinctKeys) =>
        /\ {nodes[n].key : n \in Occupied} = {lru[i] : i \in 1..Len(lru)}
        /\ end \in DOMAIN nodes
        /\ nodes[end].key = IF Len(lru) < maxsize THEN NoKey ELSE lru[Len(lru)]

\* C13: in every reachable state, following next from start visits each of
\* the maxsize nodes exactly once and ends at end, the only node without a
\* successor.
C13_ChainWellFormed == pc = "run" => OneChain

\* C14: a key is in the index iff some node holds it, and the index entry
\* of a key is the node that holds it.
C14_IndexConsistent ==
    pc = "run" =>
        \A k \in Keys :
            /\ k \in DOMAIN judy <=> Present(k)
            /\ k \in DOMAIN judy =>
                  judy[k] \in DOMAIN nodes /\ nodes[judy[k]].key = k

\* The last call returned: the process did not stop in the middle of it.
Returned == pc \notin {"fault", "abort"}

\* C15: after every call, currsize equals the number of nodes whose key is
\* not NULL.
C15_SizeCountsOccupied == Returned => currsize = Cardinality(Occupied)

\* Two puts have completed and two nodes are occupied.
C15_TwoNodesFilled ==
    op.name = "put" /\ pc = "run" /\ currsize = 2 /\ Cardinality(Occupied) = 2

\* C16: the node put repurposes is free: after every call that leaves
\* currsize < maxsize the tail holds no key, and a put writes the key or value only of a node that held
\* no key.
C16_PutTakesFreeNode ==
    [][/\ (Returned' /\ currsize' < maxsize) =>
             (end' \in DOMAIN nodes' /\ nodes'[end'].key = NoKey)
       /\ op'.name = "put" =>
             \A n \in DOMAIN nodes :
                 (nodes'[n].key # nodes[n].key \/ nodes'[n].data # nodes[n].data)
                     => nodes[n].key = NoKey]_vars

\* A put has completed on a cache that is still not full, and the tail is free.
C16_PutLeavesFreeTail ==
    /\ op.name = "put" /\ pc = "run"
    /\ 0 < currsize /\ currsize < maxsize
    /\ nodes[end].key = NoKey

\* C17: after a put of a new key that returns normally, the node holding
\* the key is the head of the list, and currsize is one more than after the
\* put's eviction step.
C17_PutMakesHead ==
    [][(op'.name = "put" /\ pc' = "run" /\ ~Present(op'.key)) =>
          /\ nodes'[start'].key = op'.key
          /\ currsize' = (IF currsize = maxsize THEN currsize - 1 ELSE currsize) + 1]_vars

\* C18: a get of a key some node holds returns normally with that node at
\* the head, end moved to the node's predecessor if it was the tail, the
\* order of the other nodes as before, and every key and value, currsize
\* and the index unchanged.
C18_GetPromotes ==
    [][(op'.name = "get" /\ Present(op'.key) /\ DistinctKeys) =>
          LET n == CHOOSE x \in Occupied : nodes[x].key = op'.key
          IN  /\ pc' = "run"
              /\ start' = n
              /\ Chain' = <<n>> \o Without(Chain, n)
              /\ end' = Chain'[Len(Chain')]
              /\ \A x \in DOMAIN nodes :
                    nodes'[x].key = nodes[x].key /\ nodes'[x].data = nodes[x].data
              /\ UNCHANGED <<currsize, judy>>]_vars

\* C19: no two occupied nodes hold equal keys.
C19_KeysUnique == pc = "run" => DistinctKeys

\* C20: the list is doubly linked: the successor of a node has that node as
\* its predecessor, and only the head has no predecessor.
C20_DoublyLinked ==
    pc = "run" =>
        /\ \A n, m \in DOMAIN nodes : nodes[n].next = m => nodes[m].prev = n
        /\ \A n \in DOMAIN nodes : nodes[n].prev = NULL => n = start

====
